---- MODULE Spec2Model ----
(***************************************************************************)
(* LevelUpX AutoFill: the step orchestrator (run / abort), the button      *)
(* finder it classifies and clicks with, and the wait primitives it        *)
(* suspends on.                                                            *)
(*                                                                         *)
(* JavaScript is single threaded and runs to completion: a run() advances  *)
(* from one await to the next without interleaving.  The model gives each  *)
(* await its own program position; the positions in between (Busy) are     *)
(* urgent: while a run is at one of them nothing else can happen.          *)
(*                                                                         *)
(* The document tree belongs to the hosting page, which may replace it     *)
(* whenever the engine is suspended.  Each synchronous block therefore     *)
(* reads one snapshot of the tree, drawn from the sample documents below.  *)
(***************************************************************************)
EXTENDS Integers, Sequences, FiniteSets, TLC

(***************************************************************************)
(* Strings, as the code uses them                                          *)
(***************************************************************************)
UpperCase == "ABCDEFGHIJKLMNOPQRSTUVWXYZ"
LowerCase == "abcdefghijklmnopqrstuvwxyz"

Range(seq) == { seq[i] : i \in 1..Len(seq) }

\* The first index of a set of indices, 0 (null) when there is none.
First(S) == IF S = {} THEN 0 ELSE CHOOSE i \in S : \A j \in S : i <= j

Last(S) == IF S = {} THEN 0 ELSE CHOOSE i \in S : \A j \in S : j <= i

CharToLower(c) ==
    LET i == First({ j \in 1..Len(UpperCase) : SubSeq(UpperCase, j, j) = c })
    IN  IF i = 0 THEN c ELSE SubSeq(LowerCase, i, i)

toLowerCase(s) ==
    LET lower[i \in 0..Len(s)] ==
            IF i = 0 THEN "" ELSE lower[i - 1] \o CharToLower(SubSeq(s, i, i))
    IN  lower[Len(s)]

trim(s) ==
    LET inked == { i \in 1..Len(s) : SubSeq(s, i, i) # " " }
    IN  IF inked = {} THEN "" ELSE SubSeq(s, First(inked), Last(inked))

includes(hay, needle) ==
    \E i \in 1..(Len(hay) - Len(needle) + 1) :
        SubSeq(hay, i, i + Len(needle) - 1) = needle

(***************************************************************************)
(* Orchestrator configuration                                              *)
(***************************************************************************)
MAX_STEPS == 15
STEP_TIMEOUT_MS == 12000
POST_FILL_DELAY_MS == 500
POST_CLICK_SETTLE_MS == 600

APPLY_TEXTS ==
    << "Easy Apply", "Apply Now", "Apply", "Apply for this job",
       "Start Application", "I'm Interested", "Apply for this position",
       "Apply to this job", "Quick Apply" >>

NEXT_TEXTS ==
    << "Next", "Continue", "Save and continue", "Save & Continue",
       "Proceed", "Next Step", "Review", "Save and next",
       "Continue to next step", "Go to next step" >>

SUBMIT_TEXTS ==
    << "Submit application", "Submit", "Send Application",
       "Complete Application", "Confirm & Submit", "Confirm and Submit",
       "Submit my application", "Apply" >>

\* Platform texts first, then the generic ones not already present
\* (compared case-insensitively).
MergeInto(platformTexts, genericTexts) ==
    LET merged[i \in 0..Len(genericTexts)] ==
            IF i = 0 THEN platformTexts
            ELSE LET m == merged[i - 1]
                     t == genericTexts[i]
                 IN  IF \E k \in 1..Len(m) : toLowerCase(m[k]) = toLowerCase(t)
                     THEN m
                     ELSE Append(m, t)
    IN  merged[Len(genericTexts)]

_mergeTexts(platformTexts, genericTexts) ==
    IF Len(platformTexts) = 0 THEN genericTexts
    ELSE MergeInto(platformTexts, genericTexts)

(***************************************************************************)
(* Adapters: the step configuration getStepConfig() hands to run().        *)
(* A selector hint is modelled by the name of the control class it         *)
(* selects; "invalid" is a selector the tree's query rejects by throwing.  *)
(***************************************************************************)
NoConfig ==
    [ openText |-> << >>, openSelectors |-> << >>, waitForSelector |-> FALSE,
      formContainerSelector |-> "none",
      nextButtonText |-> << >>, nextButtonSelectors |-> << >>,
      submitButtonText |-> << >>, submitButtonSelectors |-> << >> ]

\* src/chrome-extension/adapters/linkedin.js
LinkedInConfig ==
    [ openText |-> << "Easy Apply" >>, openSelectors |-> << "applyHint" >>,
      waitForSelector |-> TRUE,
      formContainerSelector |-> "valid",
      nextButtonText |-> << "Next", "Continue", "Review" >>,
      nextButtonSelectors |-> << "nextHint" >>,
      submitButtonText |-> << "Submit application" >>,
      submitButtonSelectors |-> << "submitHint" >> ]

\* An adapter whose form-container selector is not a valid selector.
BadSelectorConfig == [ NoConfig EXCEPT !.formContainerSelector = "invalid" ]

\* "generic": no stepConfig (getStepConfig returns null); "throwing": the
\* adapter's stepConfig function throws.
Adapters == { "generic", "linkedin", "badSelector", "throwing" }

getStepConfig(adapter) ==
    CASE adapter = "linkedin"    -> LinkedInConfig
      [] adapter = "badSelector" -> BadSelectorConfig
      [] OTHER                   -> NoConfig

Configs == { getStepConfig(a) : a \in Adapters }

\* The text lists run() and _classifyNextAction merge for a configuration.
MergedTexts ==
    { [ cfg |-> c,
        applyTexts |-> _mergeTexts(c.openText, APPLY_TEXTS),
        nextTexts |-> _mergeTexts(c.nextButtonText, NEXT_TEXTS),
        submitTexts |-> _mergeTexts(c.submitButtonText, SUBMIT_TEXTS) ] : c \in Configs }

Merged(config) == CHOOSE m \in MergedTexts : m.cfg = config

(***************************************************************************)
(* Sample documents: the action controls a snapshot of the tree shows.     *)
(*   state  : "ok", "disabled" (disabled / aria-disabled / loading class)  *)
(*            or "hidden" (no layout parent and an empty bounding box)     *)
(*   hint   : the platform selector hint the element matches, if any       *)
(*   inForm : the element lies inside the form container                   *)
(***************************************************************************)
Btn(text, aria, state, hint, inForm) ==
    [ text |-> text, aria |-> aria, state |-> state, hint |-> hint, inForm |-> inForm ]

Buttons ==
    { Btn("Apply", "", "ok", "applyHint", FALSE),
      Btn("Apply", "", "ok", "none", TRUE),
      Btn("Next", "", "ok", "nextHint", TRUE),
      Btn("Next", "", "disabled", "nextHint", TRUE),
      Btn("Continue", "", "hidden", "none", TRUE),
      Btn("Submit application", "", "ok", "submitHint", TRUE),
      Btn(" Submit ", "Submit application", "disabled", "none", TRUE),
      Btn("Review and Submit", "", "ok", "none", TRUE),
      Btn("Back", "", "ok", "none", TRUE) }

\* A sample document shows at most MaxControls action controls.
MaxControls == 3

ButtonLists == UNION { [ 1..n -> Buttons ] : n \in 0..MaxControls }

\* A snapshot: the controls in document order, and whether the element the
\* form-container selector names is in the tree.
Pages == [ buttons : ButtonLists, hasContainer : BOOLEAN ]

(***************************************************************************)
(* Button finder                                                           *)
(***************************************************************************)
_isVisible(el) == el.state # "hidden"

isClickable(el) == el.state = "ok"

elText(el) == toLowerCase(trim(el.text))

normalizedTexts(textCandidates) ==
    { trim(toLowerCase(textCandidates[i])) : i \in 1..Len(textCandidates) }

ExactMatch(el, needles) ==
    \E needle \in needles :
        elText(el) = needle \/ toLowerCase(el.aria) = needle

PartialMatch(el, needles) ==
    \E needle \in needles :
        includes(elText(el), needle) \/ includes(toLowerCase(el.aria), needle)

\* The text lists run() can pass, and for each the controls it matches.
TextLists ==
    { m.applyTexts : m \in MergedTexts } \cup { m.nextTexts : m \in MergedTexts }
    \cup { m.submitTexts : m \in MergedTexts }

Pairs(S, T) == { << x, y >> : x \in S, y \in T }

ExactTable ==
    { p \in Pairs(TextLists, Buttons) : ExactMatch(p[2], normalizedTexts(p[1])) }

PartialTable ==
    { p \in Pairs(TextLists, Buttons) : PartialMatch(p[2], normalizedTexts(p[1])) }

\* container.querySelector(sel): the first element of the scope the
\* selector matches.
querySelector(page, scope, sel) ==
    First({ i \in scope : page.buttons[i].hint = sel })

\* findByText: 0 stands for null.
findByText(page, scope, textCandidates, selectorHints) ==
    LET els == page.buttons
        hinted == { k \in 1..Len(selectorHints) :
                      LET i == querySelector(page, scope, selectorHints[k])
                      IN  i # 0 /\ _isVisible(els[i]) }
        exact == { i \in scope : _isVisible(els[i]) /\ << textCandidates, els[i] >> \in ExactTable }
        partial == { i \in scope : _isVisible(els[i]) /\ << textCandidates, els[i] >> \in PartialTable }
    IN  IF hinted # {} THEN querySelector(page, scope, selectorHints[First(hinted)])
        ELSE IF exact # {} THEN First(exact)
        ELSE First(partial)

\* safeClick cannot fail on the controls of the samples; findAndClick
\* returns the control clicked, 0 when it clicked none.
findAndClick(page, scope, textCandidates, selectorHints) ==
    LET i == findByText(page, scope, textCandidates, selectorHints)
    IN  IF i = 0 THEN 0
        ELSE IF ~isClickable(page.buttons[i]) THEN 0
        ELSE i

(***************************************************************************)
(* Orchestrator helpers                                                    *)
(***************************************************************************)
Body(page) == 1..Len(page.buttons)

\* _getFormContainer: the scope of the step (the container's controls, or
\* the whole body when there is no container).
_getFormContainer(config, page) ==
    IF config.formContainerSelector = "valid" /\ page.hasContainer
    THEN { i \in Body(page) : page.buttons[i].inForm }
    ELSE Body(page)

ImpliesFinality(el) ==
    LET btnText == toLowerCase(trim(el.text))
        ariaLabel == toLowerCase(el.aria)
    IN  \/ includes(btnText, "submit") \/ includes(ariaLabel, "submit")
        \/ includes(btnText, "send application")
        \/ includes(btnText, "complete application")
        \/ includes(btnText, "confirm")

FinalButtons == { b \in Buttons : ImpliesFinality(b) }

SubmitBtn(config, page, container) ==
    findByText(page, container,
               Merged(config).submitTexts,
               config.submitButtonSelectors)

NextBtn(config, page, container) ==
    findByText(page, container,
               Merged(config).nextTexts,
               config.nextButtonSelectors)

_classifyNextAction(config, page, container) ==
    LET submitBtn == SubmitBtn(config, page, container)
        nextBtn == NextBtn(config, page, container)
    IN  IF submitBtn # 0 /\ isClickable(page.buttons[submitBtn])
           /\ page.buttons[submitBtn] \in FinalButtons
        THEN "submit"
        ELSE IF nextBtn # 0 /\ isClickable(page.buttons[nextBtn]) THEN "next"
        ELSE IF submitBtn # 0 /\ isClickable(page.buttons[submitBtn]) THEN "submit"
        ELSE "done"

_clickNextButton(config, page, container) ==
    findAndClick(page, container,
                 Merged(config).nextTexts,
                 config.nextButtonSelectors)

(***************************************************************************)
(* Field filler: the value injectors                                       *)
(*   A control is a record.  kind "text": value.  kind "select": options   *)
(*   (each with a value attribute and a text) and selected, the position   *)
(*   of the selected option.  kind "checkbox": checked.  kind "radio": a   *)
(*   group, the label text of each member as setRadioGroup collects it,    *)
(*   and checked, the position of the checked member (0: none).  kind      *)
(*   "custom": a framework-rendered select, the texts of the option nodes  *)
(*   it renders once opened, selected, and the value of its input.         *)
(*   An injector yields the control as it leaves it, what it returns (ok)  *)
(*   and the events it dispatched.                                         *)
(***************************************************************************)
startsWith(s, prefix) ==
    Len(prefix) <= Len(s) /\ SubSeq(s, 1, Len(prefix)) = prefix

YES_WORDS == { "yes", "true", "1", "y" }
NO_WORDS == { "no", "false", "0", "n" }

Outcome(el, ok, events) == [ el |-> el, ok |-> ok, events |-> events ]

setText(el, value) ==
    IF value = "" THEN Outcome(el, FALSE, << >>)
    ELSE IF el.value = value THEN Outcome(el, TRUE, << >>)
    ELSE Outcome([ el EXCEPT !.value = value ], TRUE,
                 << "focus", "click", "input", "change", "blur" >>)

\* The position of the option setSelect chooses, 0 when none matches.
SelectMatch(options, value) ==
    LET valueLower == trim(toLowerCase(value))
        n == Len(options)
        exact == First({ i \in 1..n :
                    \/ toLowerCase(options[i].value) = valueLower
                    \/ trim(toLowerCase(options[i].text)) = valueLower })
        partial == First({ i \in 1..n :
                    includes(toLowerCase(options[i].text), valueLower) })
        reverse == First({ i \in 1..n :
                    LET optText == trim(toLowerCase(options[i].text))
                    IN  Len(optText) > 1 /\ includes(valueLower, optText) })
    IN  IF exact # 0 THEN exact ELSE IF partial # 0 THEN partial ELSE reverse

setSelect(el, value) ==
    LET match == SelectMatch(el.options, value)
    IN  IF value = "" \/ match = 0 THEN Outcome(el, FALSE, << >>)
        ELSE Outcome([ el EXCEPT !.selected = match ], TRUE, << "change" >>)

\* Step 4 of setReactSelect: the position of the option node it clicks.
ReactSelectMatch(options, value) ==
    LET valueLower == trim(toLowerCase(value))
        n == Len(options)
        text(i) == toLowerCase(trim(options[i]))
        exact == First({ i \in 1..n : text(i) = valueLower })
        partial == First({ i \in 1..n :
                      includes(text(i), valueLower) \/ includes(valueLower, text(i)) })
        isYes == valueLower \in YES_WORDS
        isNo == valueLower \in NO_WORDS
        target == IF isYes THEN "yes" ELSE "no"
        yesNo == IF isYes \/ isNo
                 THEN First({ i \in 1..n : startsWith(text(i), target) })
                 ELSE 0
    IN  IF exact # 0 THEN exact ELSE IF partial # 0 THEN partial ELSE yesNo

\* setReactSelect once the option nodes have appeared, with the fallback
\* Filler.fill chains to it: on no match the dropdown is dismissed and the
\* value is typed into the input.
setReactSelect(el, value) ==
    LET match == ReactSelectMatch(el.options, value)
        opened == << "mousedown", "mouseup", "click" >>
    IN  IF value = "" THEN Outcome(el, FALSE, << >>)
        ELSE IF match # 0
             THEN Outcome([ el EXCEPT !.selected = match ], TRUE,
                          opened \o << "mousedown", "mouseup", "click" >>)
             ELSE LET typed == setText(el, value)
                  IN  Outcome(typed.el, typed.ok, opened \o << "Escape" >> \o typed.events)

\* The matching logic of setRadioGroup over the members' label texts.
RadioMatch_PartialBeforeYesNo(labels, value) ==
    LET valueLower == trim(toLowerCase(value))
        n == Len(labels)
        labelText(i) == trim(toLowerCase(labels[i]))
        exact == First({ i \in 1..n : labelText(i) = valueLower })
        partial == First({ i \in 1..n :
                      /\ labelText(i) # ""
                      /\ \/ includes(labelText(i), valueLower)
                         \/ includes(valueLower, labelText(i)) })
        isYes == valueLower \in YES_WORDS
        isNo == valueLower \in NO_WORDS
        target == IF isYes THEN "yes" ELSE "no"
        yesNo == IF isYes \/ isNo
                 THEN First({ i \in 1..n : startsWith(labelText(i), target) })
                 ELSE 0
    IN  IF exact # 0 THEN exact ELSE IF partial # 0 THEN partial ELSE yesNo

RadioMatch(labels, value) ==
    LET valueLower == trim(toLowerCase(value))
        n == Len(labels)
        labelText(i) == trim(toLowerCase(labels[i]))
        isYes == valueLower \in YES_WORDS
        isNo == valueLower \in NO_WORDS
        target == IF isYes THEN "yes" ELSE "no"
        exact == First({ i \in 1..n : labelText(i) = valueLower })
        yesNo == IF isYes \/ isNo
                 THEN First({ i \in 1..n :
                         startsWith(labelText(i), target) \/ labelText(i) = target })
                 ELSE 0
        partial == First({ i \in 1..n :
                      /\ labelText(i) # ""
                      /\ \/ includes(labelText(i), valueLower)
                         \/ includes(valueLower, labelText(i)) })
    IN  IF exact # 0 THEN exact ELSE IF yesNo # 0 THEN yesNo ELSE partial

setRadioGroup(el, value) ==
    LET match == RadioMatch(el.labels, value)
    IN  IF value = "" \/ match = 0 THEN Outcome(el, FALSE, << >>)
        ELSE Outcome([ el EXCEPT !.checked = match ], TRUE,
                     << "focus", "mousedown", "mouseup", "click", "change" >>)

setCheckbox(el, checked) ==
    IF el.checked # checked
    THEN Outcome([ el EXCEPT !.checked = checked ], TRUE, << "click" >>)
    ELSE Outcome(el, TRUE, << >>)

\* Filler.fill: route to the injector for the control's type.  A custom
\* select is queued and reported filled at once; its outcome here is the
\* one the queued promise settles with.
FillerFill_NoSkip(el, value) ==
    CASE value = ""            -> Outcome(el, FALSE, << >>)
      [] el.kind = "select"    -> setSelect(el, value)
      [] el.kind = "checkbox"  -> setCheckbox(el, TRUE)
      [] el.kind = "radio"     -> setRadioGroup(el, value)
      [] el.kind = "custom"    -> setReactSelect(el, value)
      [] OTHER                 ->
            Outcome([ el EXCEPT !.value = value ], TRUE,
                    << "focus", "click", "input", "change", "blur" >>)

FillerFill(el, value) ==
    CASE value = ""            -> Outcome(el, FALSE, << >>)
      [] el.kind = "select"    -> setSelect(el, value)
      [] el.kind = "checkbox"  -> setCheckbox(el, TRUE)
      [] el.kind = "radio"     -> setRadioGroup(el, value)
      [] el.kind = "custom"    -> setReactSelect(el, value)
      [] OTHER                 -> setText(el, value)

(***************************************************************************)
(* Wait primitives and field filler: the constants the run depends on      *)
(***************************************************************************)
OPEN_WAIT_MS == 8000
OPEN_SETTLE_QUIET_MS == 500
OPEN_SETTLE_TIMEOUT_MS == 4000
POLL_ATTEMPTS == 40
POLL_MS == 50

\* The application form asks for the resume on one of its first
\* MaxUploadStep steps, if at all.
MaxUploadStep == 1

\* The last step whose form has fields the fill pass fills.
MaxFieldStep == 1

\* The callers that may invoke run(); each calls again once its previous
\* call has settled.
NumCallers == 2

Callers == 1..NumCallers

TimerNames == { "delay", "quiet", "max", "fill" }

Unset == -1

NoResult == [ pending |-> TRUE ]

\* Positions of a run() invocation.  Await points: openWait, upload, delay,
\* transition.  The others are inside a synchronous block.
AwaitPcs == { "openWait", "upload", "delay", "transition" }
BusyPcs == { "open", "loop", "classify", "navigate", "return", "catch" }

VARIABLES
    _running, _aborted, _currentStep, _log,   \* the orchestrator object
    pc,            \* position of each caller's run() invocation
    stepConfig,    \* its local stepConfig
    totalFilled,   \* its local totalFilled
    result,        \* what its promise settled with
    timers,        \* pending setTimeout timers: remaining ms, or Unset
    observer,      \* the MutationObserver connected: "none", "element", "settle"
    fill,          \* the current step's adapter.fill() pass: "none", "running", "done"
    obs,           \* history of the active run, for stating the properties
    control,       \* the control a Filler.fill call is made on
    injected,      \* that call: its value, what it returned, the events it dispatched
    resolved,      \* a findField call: the container, the strategies, the result
    wait,          \* a wait primitive invocation
    form,          \* a form under adapter.fill(): its controls and the fill records
    asyncFills,    \* the Filler's queue of custom-widget injections and its flushes
    room,          \* the interview room page
    editor         \* the resume editor page

\* The orchestrator run, and the components exercised on their own.
runVars == << _running, _aborted, _currentStep, _log, pc, stepConfig, totalFilled,
              result, timers, observer, fill, obs >>

fillerVars == << control, injected >>

detectorVars == << resolved >>

waitVars == << wait >>

formVars == << form >>

widgetVars == << asyncFills >>

roomVars == << room >>

editorVars == << editor >>

pageVars == << widgetVars, roomVars, editorVars >>

componentVars == << fillerVars, detectorVars, waitVars, formVars, pageVars >>

vars == << runVars, componentVars >>

NoControl == [ kind |-> "none" ]

NoInjection == [ calls |-> 0 ]

NoResolution == [ called |-> FALSE ]

NoWait == [ primitive |-> "none" ]

NoForm == [ passes |-> 0 ]

NoWidgets == [ queued |-> 0 ]

NoRoom == [ page |-> "closed" ]

NoEditor == [ page |-> "closed" ]

\* The components that are not being exercised.
IdleFiller == control = NoControl /\ injected = NoInjection

IdleDetector == resolved = NoResolution

IdleWaits == wait = NoWait

IdleForm == form = NoForm

IdleWidgets == asyncFills = NoWidgets

IdleRoom == room = NoRoom

IdleEditor == editor = NoEditor

NoObs ==
    [ noProfile |-> FALSE,        \* run() was called with no profile
      abortCalled |-> FALSE,      \* abort() was called while this run was active
      stepAtAbort |-> 0,          \* ... at this step
      filledAtAbort |-> 0,        \* ... with this many fields filled
      fillPasses |-> 0,           \* fill passes started
      controlsFilled |-> 0,       \* controls the run has filled so far
      nextClicks |-> 0,           \* Next clicks made
      classifiedStep |-> 0,       \* the last step whose classification ran
      capHit |-> FALSE,           \* the last transition wait ended at its hard cap
      errorMarker |-> FALSE,      \* ... with a visible validation-error marker
      failure |-> "none",         \* step-level failure met
      status |-> "none",          \* the last report made through onStatus
      action |-> "none",          \* what the latest synchronous block decided
      clicked |-> FALSE,          \* that block clicked a control
      clickedSubmit |-> FALSE,    \* ... which classification names the submit control
      showsBoth |-> FALSE,        \* the classified snapshot shows a clickable final
                                  \* submit control and a clickable next-like one
      showsBlockedNav |-> FALSE ] \* ... a navigation control that is not clickable

\* The profile argument of run(): a profile record (TRUE) or null (FALSE).
Profiles == BOOLEAN

\* The reports onStatus receives with isError = true.
ErrorStatuses == { "clickFailed", "validationErrors", "timedOut", "error" }

\* A settled promise's continuation runs before anything else does.
Busy == \E r \in Callers : pc[r] \in BusyPcs \cup { "done" }

Active(r) == pc[r] \in AwaitPcs \cup BusyPcs

InitRun ==
    /\ _running = FALSE
    /\ _aborted = FALSE
    /\ _currentStep = 0
    /\ _log = << >>
    /\ pc = [ r \in Callers |-> "idle" ]
    /\ stepConfig = [ r \in Callers |-> NoConfig ]
    /\ totalFilled = [ r \in Callers |-> 0 ]
    /\ result = [ r \in Callers |-> NoResult ]
    /\ timers = [ t \in TimerNames |-> Unset ]
    /\ observer = "none"
    /\ fill = "none"
    /\ obs = NoObs

Init ==
    /\ InitRun
    /\ IdleFiller /\ IdleDetector /\ IdleWaits /\ IdleForm /\ IdleWidgets /\ IdleRoom /\ IdleEditor

_addLog(log, step, action) == Append(log, [ step |-> step, action |-> action ])

(***************************************************************************)
(* run(): entry                                                            *)
(***************************************************************************)
AlreadyRunning == [ success |-> FALSE, error |-> "Already running" ]

\* The guard of run(): a call made while a run is active returns at once.
RejectedCall(r) ==
    /\ _running
    /\ pc' = [ pc EXCEPT ![r] = "done" ]
    /\ result' = [ result EXCEPT ![r] = AlreadyRunning ]
    /\ UNCHANGED << _running, _aborted, _currentStep, _log, stepConfig, totalFilled,
                    timers, observer, fill, obs >>
    /\ UNCHANGED componentVars

\* An accepted call resets the orchestrator and reads the step
\* configuration; a throwing getStepConfig() rejects the promise before the
\* try block is entered.
AcceptedCall_Unguarded(r, adapter) ==
    /\ _running' = TRUE
    /\ _aborted' = FALSE
    /\ _currentStep' = 0
    /\ _log' = << >>
    /\ totalFilled' = [ totalFilled EXCEPT ![r] = 0 ]
    /\ \E profile \in Profiles : obs' = [ NoObs EXCEPT !.noProfile = ~profile ]
    /\ fill' = "none"
    /\ pc' = [ pc EXCEPT ![r] = "open" ]
    /\ stepConfig' = [ stepConfig EXCEPT ![r] = getStepConfig(adapter) ]
    /\ UNCHANGED << result, timers, observer >>
    /\ UNCHANGED componentVars

AcceptedCall(r, adapter) ==
    /\ ~_running
    /\ _running' = TRUE
    /\ _aborted' = FALSE
    /\ _currentStep' = 0
    /\ _log' = << >>
    /\ totalFilled' = [ totalFilled EXCEPT ![r] = 0 ]
    /\ \E profile \in Profiles : obs' = [ NoObs EXCEPT !.noProfile = ~profile ]
    /\ fill' = "none"
    /\ IF adapter = "throwing"
       THEN /\ pc' = [ pc EXCEPT ![r] = "done" ]
            /\ result' = [ result EXCEPT ![r] = [ rejected |-> "getStepConfig threw" ] ]
            /\ UNCHANGED stepConfig
       ELSE /\ pc' = [ pc EXCEPT ![r] = "open" ]
            /\ stepConfig' = [ stepConfig EXCEPT ![r] = getStepConfig(adapter) ]
            /\ UNCHANGED result
    /\ UNCHANGED << timers, observer >>
    /\ UNCHANGED componentVars

RunCall(r) ==
    /\ pc[r] = "idle"
    /\ ~Busy
    /\ \/ RejectedCall(r)
       \/ \E adapter \in Adapters : AcceptedCall(r, adapter)

\* The caller takes the settled result; it may call again.
Consume(r) ==
    /\ pc[r] = "done"
    /\ pc' = [ pc EXCEPT ![r] = "idle" ]
    /\ result' = [ result EXCEPT ![r] = NoResult ]
    /\ stepConfig' = [ stepConfig EXCEPT ![r] = NoConfig ]
    /\ totalFilled' = [ totalFilled EXCEPT ![r] = 0 ]
    /\ obs' = IF result[r] = AlreadyRunning THEN obs ELSE NoObs
    /\ UNCHANGED << _running, _aborted, _currentStep, _log, timers, observer, fill >>
    /\ UNCHANGED componentVars

(***************************************************************************)
(* Phase 1: open the application form                                      *)
(***************************************************************************)
\* Classification names control i the submit control of the snapshot.
RecognisedAsSubmit(cfg, page, i) ==
    LET container == _getFormContainer(cfg, page)
    IN  /\ i # 0
        /\ _classifyNextAction(cfg, page, container) = "submit"
        /\ SubmitBtn(cfg, page, container) = i

SetTimers(quiet, max) == [ timers EXCEPT !["quiet"] = quiet, !["max"] = max ]

\* What Phase 1 does on each sample snapshot: whether findAndClick finds
\* an apply control to click, and whether the awaited form is already there.
OpenCase(cfg, page) ==
    LET applyClicked ==
            findAndClick(page, Body(page), Merged(cfg).applyTexts, cfg.openSelectors)
    IN  [ cfg |-> cfg,
          applyClicked |-> applyClicked # 0,
          clickedSubmit |-> RecognisedAsSubmit(cfg, page, applyClicked),
          formPresent |-> page.hasContainer ]

OpenCases == { OpenCase(cfg, page) : cfg \in Configs, page \in Pages }

OpenApplication(r) ==
    /\ pc[r] = "open"
    /\ \E c \in { k \in OpenCases : k.cfg = stepConfig[r] }, safeClick \in BOOLEAN :
         LET cfg == stepConfig[r]
         IN  IF c.applyClicked /\ safeClick
             THEN /\ _log' = _addLog(_log, _currentStep, "apply_clicked")
                  /\ obs' = [ obs EXCEPT !.action = "open", !.status = "opening",
                                         !.clicked = TRUE,
                                         !.clickedSubmit = c.clickedSubmit ]
                  /\ IF cfg.waitForSelector /\ c.formPresent
                     THEN \* waitForElement: already present
                          /\ pc' = [ pc EXCEPT ![r] = "loop" ]
                          /\ UNCHANGED << timers, observer >>
                     ELSE IF cfg.waitForSelector
                     THEN /\ pc' = [ pc EXCEPT ![r] = "openWait" ]
                          /\ timers' = SetTimers(Unset, OPEN_WAIT_MS)
                          /\ observer' = "element"
                     ELSE /\ pc' = [ pc EXCEPT ![r] = "openWait" ]
                          /\ timers' = SetTimers(OPEN_SETTLE_QUIET_MS, OPEN_SETTLE_TIMEOUT_MS)
                          /\ observer' = "settle"
             ELSE /\ _log' = _addLog(_log, _currentStep, "no_apply_button")
                  /\ obs' = [ obs EXCEPT !.action = "open", !.status = "looking" ]
                  /\ pc' = [ pc EXCEPT ![r] = "loop" ]
                  /\ UNCHANGED << timers, observer >>
    /\ UNCHANGED << _running, _aborted, _currentStep, stepConfig, totalFilled, result, fill >>
    /\ UNCHANGED componentVars

(***************************************************************************)
(* Phase 2: the step loop                                                  *)
(***************************************************************************)
\* What a synchronous block observed is forgotten when the next one starts.
ClearSeen(o) ==
    [ o EXCEPT !.action = "none", !.clicked = FALSE, !.clickedSubmit = FALSE,
               !.showsBoth = FALSE, !.showsBlockedNav = FALSE ]

\* adapter.fill() is an async function: what run() receives is a promise.
AdapterFillResult == [ promise |-> TRUE ]

\* result ? (result.filledCount || 0) : 0
StepFilled(fillResult) ==
    IF "filledCount" \in DOMAIN fillResult THEN fillResult.filledCount ELSE 0

\* How many controls Pass 1 of the step's fill pass fills, synchronously,
\* before adapter.fill() returns its promise.  With no profile the adapter's
\* fieldMap(profile) throws before Pass 1 and the promise is rejected.
FieldsFilled(step, noProfile) ==
    IF step <= MaxFieldStep /\ ~noProfile THEN { 0, 1 } ELSE { 0 }

\* The states of the resume file input a step can show.
FileInputs(step) ==
    IF step <= MaxUploadStep THEN { "none", "empty", "attached" } ELSE { "none", "attached" }

\* while (this._currentStep < this.MAX_STEPS && !this._aborted)
LoopCondition_Unbounded == ~_aborted

LoopCondition_IgnoresAbort == _currentStep < MAX_STEPS

LoopCondition == _currentStep < MAX_STEPS /\ ~_aborted

\* Loop head and the start of a step, up to its first await.
LoopHead(r) ==
    /\ pc[r] = "loop"
    /\ IF ~LoopCondition
       THEN /\ pc' = [ pc EXCEPT ![r] = "return" ]
            /\ obs' = ClearSeen(obs)
            /\ UNCHANGED << _currentStep, _log, totalFilled, timers, fill >>
       ELSE /\ _currentStep' = _currentStep + 1
            /\ IF stepConfig[r].formContainerSelector = "invalid"
               THEN \* document.querySelector throws
                    /\ pc' = [ pc EXCEPT ![r] = "catch" ]
                    /\ obs' = [ ClearSeen(obs) EXCEPT !.failure = "error",
                                                       !.status = "filling" ]
                    /\ UNCHANGED << _log, totalFilled, timers, fill >>
               ELSE \E widgets \in BOOLEAN, polls \in { 1, POLL_ATTEMPTS },
                       fileInput \in FileInputs(_currentStep + 1),
                       fields \in FieldsFilled(_currentStep + 1, obs.noProfile) :
                    /\ totalFilled' = [ totalFilled EXCEPT
                                          ![r] = @ + StepFilled(AdapterFillResult) ]
                    /\ obs' = [ ClearSeen(obs) EXCEPT
                                  !.fillPasses = @ + 1,
                                  !.controlsFilled = @ + fields,
                                  !.status = IF fileInput = "empty" THEN "filling"
                                             ELSE "filled" ]
                    /\ fill' = IF widgets THEN "running" ELSE "done"
                    /\ IF fileInput = "empty"
                       THEN \* _tryResumeUpload awaits the background's answer
                            /\ pc' = [ pc EXCEPT ![r] = "upload" ]
                            /\ timers' = [ timers EXCEPT
                                   !["fill"] = IF widgets THEN polls * POLL_MS ELSE Unset ]
                            /\ UNCHANGED _log
                       ELSE /\ pc' = [ pc EXCEPT ![r] = "delay" ]
                            /\ _log' = _addLog(_log, _currentStep + 1, "step_filled")
                            /\ timers' = [ timers EXCEPT
                                   !["fill"] = IF widgets THEN polls * POLL_MS ELSE Unset,
                                   !["delay"] = POST_FILL_DELAY_MS ]
    /\ UNCHANGED << _running, _aborted, stepConfig, result, observer >>
    /\ UNCHANGED componentVars

\* The resume upload settles: uploaded, nothing to upload, or an error
\* (caught by the step and logged).
UploadDone(r) ==
    /\ pc[r] = "upload"
    /\ ~Busy
    /\ \E outcome \in { "uploaded", "nodata", "error" } :
         /\ totalFilled' = [ totalFilled EXCEPT
                               ![r] = IF outcome = "uploaded" THEN @ + 1 ELSE @ ]
         /\ _log' = _addLog(IF outcome = "error"
                            THEN _addLog(_log, _currentStep, "resume_skip")
                            ELSE _log,
                            _currentStep, "step_filled")
         /\ obs' = [ obs EXCEPT !.status = "filled",
                                !.controlsFilled =
                                    IF outcome = "uploaded" THEN @ + 1 ELSE @ ]
    /\ timers' = [ timers EXCEPT !["delay"] = POST_FILL_DELAY_MS ]
    /\ pc' = [ pc EXCEPT ![r] = "delay" ]
    /\ UNCHANGED << _running, _aborted, _currentStep, stepConfig, result, observer, fill >>
    /\ UNCHANGED componentVars

\* Waiters.delay(POST_FILL_DELAY_MS) resolves.
DelayFires(r) ==
    /\ pc[r] = "delay"
    /\ ~Busy
    /\ timers["delay"] = 0
    /\ timers' = [ timers EXCEPT !["delay"] = Unset ]
    /\ pc' = [ pc EXCEPT ![r] = "classify" ]
    /\ UNCHANGED << _running, _aborted, _currentStep, _log, stepConfig, totalFilled,
                    result, observer, fill, obs >>
    /\ UNCHANGED componentVars

\* Facts about the classified snapshot, for the properties.
SubmitLike(cfg, el) ==
    LET texts == Merged(cfg).submitTexts
    IN  \/ << texts, el >> \in ExactTable \/ << texts, el >> \in PartialTable
        \/ el.hint \in Range(cfg.submitButtonSelectors)

NextLike(cfg, el) ==
    LET texts == Merged(cfg).nextTexts
    IN  \/ << texts, el >> \in ExactTable \/ << texts, el >> \in PartialTable
        \/ el.hint \in Range(cfg.nextButtonSelectors)

\* The step shows a clickable submit-like control whose text implies
\* finality and, besides it, a clickable next-like control.
ShowsBoth(cfg, page, container) ==
    \E i, j \in container :
        LET el == page.buttons[i]
            other == page.buttons[j]
        IN  /\ i # j
            /\ SubmitLike(cfg, el) /\ isClickable(el) /\ el \in FinalButtons
            /\ NextLike(cfg, other) /\ isClickable(other)

\* A next-like control is in the step but disabled or hidden, and the step
\* shows no clickable navigation control at all.
ShowsBlockedNav(cfg, page, container) ==
    /\ \E i \in container :
          NextLike(cfg, page.buttons[i]) /\ ~isClickable(page.buttons[i])
    /\ ~\E i \in container :
          /\ isClickable(page.buttons[i])
          /\ \/ NextLike(cfg, page.buttons[i])
             \/ SubmitLike(cfg, page.buttons[i])

\* What the classification block does on each sample snapshot: the action
\* chosen, whether _clickNextButton finds a control to click, and the facts.
ClassifyCase(cfg, page) ==
    LET container == _getFormContainer(cfg, page)
        clicked == _clickNextButton(cfg, page, container)
    IN  [ cfg |-> cfg,
          nextAction |-> _classifyNextAction(cfg, page, container),
          clicked |-> clicked # 0,
          clickedSubmit |-> RecognisedAsSubmit(cfg, page, clicked),
          showsBoth |-> ShowsBoth(cfg, page, container),
          showsBlockedNav |-> ShowsBlockedNav(cfg, page, container) ]

ClassifyCases ==
    { ClassifyCase(cfg, page) : cfg \in Configs \ { BadSelectorConfig }, page \in Pages }

\* if (this._aborted) break;  -- after the post-fill delay
MidStepAbortCheck_Skipped == FALSE

MidStepAbortCheck == _aborted

\* After the post-fill delay: the abort check, classification and the click.
Classify(r) ==
    /\ pc[r] = "classify"
    /\ IF MidStepAbortCheck
       THEN /\ pc' = [ pc EXCEPT ![r] = "return" ]
            /\ obs' = [ obs EXCEPT !.action = "aborted" ]
            /\ UNCHANGED _log
       ELSE \E c \in { k \in ClassifyCases : k.cfg = stepConfig[r] },
               safeClick \in BOOLEAN :
            LET seen == [ obs EXCEPT
                            !.classifiedStep = _currentStep,
                            !.action = c.nextAction,
                            !.showsBoth = c.showsBoth,
                            !.showsBlockedNav = c.showsBlockedNav ]
                clicked == c.clicked /\ safeClick
            IN  CASE c.nextAction = "submit" ->
                       /\ _log' = _addLog(_log, _currentStep, "awaiting_submit")
                       /\ pc' = [ pc EXCEPT ![r] = "return" ]
                       /\ obs' = [ seen EXCEPT !.status = "awaitingSubmit" ]
                  [] c.nextAction = "done" ->
                       /\ _log' = _addLog(_log, _currentStep, "no_next_button")
                       /\ pc' = [ pc EXCEPT ![r] = "return" ]
                       /\ obs' = [ seen EXCEPT !.status = "done" ]
                  [] c.nextAction = "next" /\ ~clicked ->
                       /\ _log' = _addLog(_log, _currentStep, "click_failed")
                       /\ pc' = [ pc EXCEPT ![r] = "return" ]
                       /\ obs' = [ seen EXCEPT !.failure = "click_failed",
                                                !.status = "clickFailed" ]
                  [] c.nextAction = "next" /\ clicked ->
                       /\ pc' = [ pc EXCEPT ![r] = "navigate" ]
                       /\ obs' = [ seen EXCEPT
                                     !.nextClicks = @ + 1,
                                     !.clicked = TRUE,
                                     !.clickedSubmit = c.clickedSubmit ]
                       /\ UNCHANGED _log
    /\ UNCHANGED << _running, _aborted, _currentStep, stepConfig, totalFilled, result,
                    timers, observer, fill >>
    /\ UNCHANGED componentVars

\* _waitForStepTransition starts waitForDomSettle.
Navigate(r) ==
    /\ pc[r] = "navigate"
    /\ timers' = SetTimers(POST_CLICK_SETTLE_MS, STEP_TIMEOUT_MS)
    /\ observer' = "settle"
    /\ pc' = [ pc EXCEPT ![r] = "transition" ]
    /\ obs' = [ ClearSeen(obs) EXCEPT !.capHit = FALSE, !.errorMarker = FALSE ]
    /\ UNCHANGED << _running, _aborted, _currentStep, _log, stepConfig, totalFilled,
                    result, fill >>
    /\ UNCHANGED componentVars

(***************************************************************************)
(* Wait primitives                                                         *)
(***************************************************************************)
ActiveTimers == { t \in TimerNames : timers[t] # Unset }

MinRemaining == CHOOSE m \in { timers[t] : t \in ActiveTimers } :
                    \A t \in ActiveTimers : m <= timers[t]

Elapse(d) == [ t \in TimerNames |-> IF timers[t] = Unset THEN Unset ELSE timers[t] - d ]

\* Time runs on to the next timer that is due.
TimePasses ==
    /\ ~Busy
    /\ ActiveTimers # {}
    /\ MinRemaining > 0
    /\ timers' = Elapse(MinRemaining)
    /\ UNCHANGED << _running, _aborted, _currentStep, _log, pc, stepConfig, totalFilled,
                    result, observer, fill, obs >>
    /\ UNCHANGED componentVars

\* waitForDomSettle settles its promise the same way from both timers.
\* by: "quiet" (the quiet window elapsed) or "cap" (the hard cap).
waitForDomSettle(by) == "resolved"

\* _waitForStepTransition: true when the wait resolved, false when it threw.
_waitForStepTransition(settled) == settled = "resolved"

\* The continuation of the run awaiting a settle wait that ended `by`.
SettleEnds(r, by) ==
    /\ timers' = SetTimers(Unset, Unset)
    /\ observer' = "none"
    /\ IF pc[r] = "openWait"
       THEN /\ pc' = [ pc EXCEPT ![r] = "loop" ]
            /\ UNCHANGED << obs, _log >>
       ELSE \E errorMarker \in BOOLEAN :
            LET transitioned == _waitForStepTransition(waitForDomSettle(by))
                seen == [ obs EXCEPT !.capHit = (by = "cap"), !.errorMarker = errorMarker ]
            IN  IF transitioned
                THEN /\ pc' = [ pc EXCEPT ![r] = "loop" ]
                     /\ obs' = seen
                     /\ UNCHANGED _log
                ELSE \* _checkForValidationErrors, then break
                     /\ pc' = [ pc EXCEPT ![r] = "return" ]
                     /\ obs' = [ seen EXCEPT
                                   !.failure = "transition_failed",
                                   !.status = IF errorMarker THEN "validationErrors"
                                              ELSE "timedOut" ]
                     /\ UNCHANGED _log
    /\ UNCHANGED << _running, _aborted, _currentStep, stepConfig, totalFilled, result, fill >>
    /\ UNCHANGED componentVars

QuietTimerFires(r) ==
    /\ pc[r] \in { "openWait", "transition" }
    /\ ~Busy
    /\ observer = "settle"
    /\ timers["quiet"] = 0
    /\ SettleEnds(r, "quiet")

MaxTimerFires(r) ==
    /\ pc[r] \in { "openWait", "transition" }
    /\ ~Busy
    /\ timers["max"] = 0
    /\ IF observer = "settle"
       THEN SettleEnds(r, "cap")
       ELSE \* waitForElement timed out: run() falls back to waitForDomSettle
            /\ timers' = SetTimers(OPEN_SETTLE_QUIET_MS, OPEN_SETTLE_TIMEOUT_MS)
            /\ observer' = "settle"
            /\ UNCHANGED << _running, _aborted, _currentStep, _log, pc, stepConfig,
                            totalFilled, result, fill, obs >>
            /\ UNCHANGED componentVars

QuietMs(r) == IF pc[r] = "openWait" THEN OPEN_SETTLE_QUIET_MS ELSE POST_CLICK_SETTLE_MS

\* The timers a burst of mutations leaves running (it keeps the quiet timer
\* from firing), and how long the burst can last before one of them is due.
OtherTimers == ActiveTimers \ { "quiet" }

BurstLengths ==
    { 0 } \cup { timers[t] : t \in { u \in OtherTimers :
                                      \A v \in OtherTimers : timers[u] <= timers[v] } }

\* The page mutates the tree: once, now, or again and again with gaps
\* shorter than the quiet window until the next other timer is due.  The
\* connected observer's callback runs on each mutation.
DomMutation(r) ==
    /\ pc[r] \in { "openWait", "transition" }
    /\ ~Busy
    /\ \A t \in ActiveTimers : timers[t] > 0
    /\ \E d \in BurstLengths :
         IF observer = "settle"
         THEN /\ timers' = [ Elapse(d) EXCEPT !["quiet"] = QuietMs(r) ]
              /\ UNCHANGED << pc, observer >>
         ELSE \E present \in BOOLEAN :
              IF present
              THEN /\ timers' = [ Elapse(0) EXCEPT !["max"] = Unset ]
                   /\ observer' = "none"
                   /\ pc' = [ pc EXCEPT ![r] = "loop" ]
              ELSE /\ timers' = Elapse(d)
                   /\ UNCHANGED << pc, observer >>
    /\ UNCHANGED << _running, _aborted, _currentStep, _log, stepConfig, totalFilled,
                    result, fill, obs >>
    /\ UNCHANGED componentVars

\* The step's fill pass ends: its queued custom-widget injections have
\* settled and been flushed.
FillCompletes ==
    /\ ~Busy
    /\ fill = "running"
    /\ timers["fill"] = 0
    /\ fill' = "done"
    /\ timers' = [ timers EXCEPT !["fill"] = Unset ]
    /\ UNCHANGED << _running, _aborted, _currentStep, _log, pc, stepConfig, totalFilled,
                    result, observer, obs >>
    /\ UNCHANGED componentVars

(***************************************************************************)
(* run(): exit, and abort()                                                *)
(***************************************************************************)
RunResult_AlwaysSuccess(r) ==
    [ success |-> TRUE, stepsCompleted |-> _currentStep,
      totalFilled |-> totalFilled[r], log |-> _log ]

RunResult(r) ==
    [ success |-> ~_aborted, stepsCompleted |-> _currentStep,
      totalFilled |-> totalFilled[r], log |-> _log ]

ErrorResult_Bare(r, log) == [ rejected |-> "error" ]

ErrorResult(r, log) ==
    [ success |-> FALSE, error |-> "error", stepsCompleted |-> _currentStep,
      totalFilled |-> totalFilled[r], log |-> log ]

\* finally { this._running = false }
Finally == FALSE

Return(r) ==
    /\ pc[r] = "return"
    /\ result' = [ result EXCEPT ![r] = RunResult(r) ]
    /\ _running' = Finally
    /\ pc' = [ pc EXCEPT ![r] = "done" ]
    /\ fill' = "none"
    /\ timers' = [ timers EXCEPT !["fill"] = Unset ]
    /\ UNCHANGED << _aborted, _currentStep, _log, stepConfig, totalFilled, observer, obs >>
    /\ UNCHANGED componentVars

Catch(r) ==
    /\ pc[r] = "catch"
    /\ _log' = _addLog(_log, _currentStep, "error")
    /\ obs' = [ obs EXCEPT !.status = "error" ]
    /\ result' = [ result EXCEPT ![r] = ErrorResult(r, _log') ]
    /\ _running' = Finally
    /\ pc' = [ pc EXCEPT ![r] = "done" ]
    /\ fill' = "none"
    /\ timers' = [ timers EXCEPT !["fill"] = Unset ]
    /\ UNCHANGED << _aborted, _currentStep, stepConfig, totalFilled, observer >>
    /\ UNCHANGED componentVars

abort ==
    /\ ~Busy
    /\ _aborted' = TRUE
    /\ obs' = IF obs.abortCalled \/ ~\E r \in Callers : Active(r)
              THEN obs
              ELSE [ obs EXCEPT !.abortCalled = TRUE,
                                !.stepAtAbort = _currentStep,
                                !.filledAtAbort =
                                    totalFilled[CHOOSE r \in Callers : Active(r)] ]
    /\ UNCHANGED << _running, _currentStep, _log, pc, stepConfig, totalFilled, result,
                    timers, observer, fill >>
    /\ UNCHANGED componentVars

Next ==
    \/ \E r \in Callers : RunCall(r)
    \/ \E r \in Callers : Consume(r)
    \/ \E r \in Callers : OpenApplication(r)
    \/ \E r \in Callers : LoopHead(r)
    \/ \E r \in Callers : UploadDone(r)
    \/ \E r \in Callers : DelayFires(r)
    \/ \E r \in Callers : Classify(r)
    \/ \E r \in Callers : Navigate(r)
    \/ \E r \in Callers : QuietTimerFires(r)
    \/ \E r \in Callers : MaxTimerFires(r)
    \/ \E r \in Callers : DomMutation(r)
    \/ \E r \in Callers : Return(r)
    \/ \E r \in Callers : Catch(r)
    \/ TimePasses
    \/ FillCompletes
    \/ abort

Spec == Init /\ [][Next]_vars

(***************************************************************************)
(* The field filler on its own: Filler.fill called on a sample control,    *)
(* and called again with the same value.                                   *)
(***************************************************************************)
Opt(value, text) == [ value |-> value, text |-> text ]

Select(options) == [ kind |-> "select", options |-> options, selected |-> 1 ]

RadioGroup(labels) == [ kind |-> "radio", labels |-> labels, checked |-> 0 ]

CustomSelect(options) ==
    [ kind |-> "custom", options |-> options, selected |-> 0, value |-> "" ]

\* Sample option lists: the label texts of a radio group or of the option
\* nodes of a custom select.
OptionLabels ==
    { << "Yes, I am authorized", "No" >>,
      << "Unknown", "No thanks" >>,
      << "No", "Yes" >>,
      << "Indiana", "India" >>,
      << "Other" >> }

ControlSamples ==
    { [ kind |-> "text", value |-> "" ],
      [ kind |-> "text", value |-> "India" ],
      [ kind |-> "checkbox", checked |-> FALSE ],
      [ kind |-> "checkbox", checked |-> TRUE ],
      Select(<< Opt("", "Select..."), Opt("1", "Yes, I am authorized"), Opt("0", "No") >>),
      Select(<< Opt("unknown", "Unknown"), Opt("no_thanks", "No thanks") >>),
      Select(<< Opt("", "Select..."), Opt("IN", "India"), Opt("US", "Indiana") >>) }
    \cup { RadioGroup(labels) : labels \in OptionLabels }
    \cup { CustomSelect(labels) : labels \in OptionLabels }

FillValues == { "Yes", "n", "true", "India", "1" }

\* How often the sample control is filled.
MaxFills == 2

FillerInit ==
    /\ InitRun
    /\ IdleDetector /\ IdleWaits /\ IdleForm /\ IdleWidgets /\ IdleRoom /\ IdleEditor
    /\ control \in ControlSamples
    /\ injected = NoInjection

Injection(value, before, outcome, calls) ==
    [ value |-> value, before |-> before, ok |-> outcome.ok,
      events |-> outcome.events, calls |-> calls,
      held |-> IF calls = 1 THEN FALSE ELSE injected.ok ]

\* Filler.fill(el, value) on the control as the page shows it.
FillControl ==
    /\ injected.calls = 0
    /\ \E value \in FillValues :
          LET outcome == FillerFill(control, value)
          IN  /\ control' = outcome.el
              /\ injected' = Injection(value, control, outcome, 1)
    /\ UNCHANGED << runVars, detectorVars, waitVars, formVars, pageVars >>

\* The same step filled again with unchanged content.
RefillControl ==
    /\ injected.calls \in 1..(MaxFills - 1)
    /\ LET outcome == FillerFill(control, injected.value)
       IN  /\ control' = outcome.el
           /\ injected' = Injection(injected.value, control, outcome, injected.calls + 1)
    /\ UNCHANGED << runVars, detectorVars, waitVars, formVars, pageVars >>

FillerNext == FillControl \/ RefillControl

FillerSpec == FillerInit /\ [][FillerNext]_vars

(***************************************************************************)
(* The field detector on its own: findField over a list of strategies.     *)
(*   A container holds the elements 1..NumElements; offsetParent tells     *)
(*   for each whether it has a layout parent (is visible).  A strategy is  *)
(*   {method, args}; finds is the element the method returns for these     *)
(*   args in the container, 0 for null.                                    *)
(***************************************************************************)
NumElements == 2

MaxStrategies == 3

Containers == [ offsetParent : [ 1..NumElements -> BOOLEAN ] ]

\* The methods the detector has.
DetectorMethods ==
    { "bySelector", "byName", "byLabelText", "byPlaceholder", "byDataAutomation",
      "byAriaLabel" }

Strategies ==
    [ method : { "byName", "byLabelText" }, finds : 0..NumElements ]
    \cup { [ method |-> "byTestId", finds |-> 0 ] }

StrategyLists == UNION { [ 1..n -> Strategies ] : n \in 0..MaxStrategies }

\* fn.call(this, container, ...strat.args), for a method the detector has.
CallStrategy(container, strat) == strat.finds

findField_FirstOfAny(container, strategies) ==
    LET n == Len(strategies)
        known == { i \in 1..n : strategies[i].method \in DetectorMethods }
        any == First({ i \in known : CallStrategy(container, strategies[i]) # 0 })
    IN  IF any # 0 THEN CallStrategy(container, strategies[any]) ELSE 0

findField(container, strategies) ==
    LET n == Len(strategies)
        known == { i \in 1..n : strategies[i].method \in DetectorMethods }
        visible == First({ i \in known :
                      LET el == CallStrategy(container, strategies[i])
                      IN  el # 0 /\ container.offsetParent[el] })
        any == First({ i \in known : CallStrategy(container, strategies[i]) # 0 })
    IN  IF visible # 0 THEN CallStrategy(container, strategies[visible])
        ELSE IF any # 0 THEN CallStrategy(container, strategies[any])
        ELSE 0

DetectorInit ==
    /\ InitRun
    /\ IdleFiller /\ IdleWaits /\ IdleForm /\ IdleWidgets /\ IdleRoom /\ IdleEditor
    /\ resolved \in [ container : Containers, strategies : StrategyLists,
                      el : { 0 }, called : { FALSE } ]

FindField ==
    /\ ~resolved.called
    /\ resolved' = [ resolved EXCEPT
                       !.el = findField(resolved.container, resolved.strategies),
                       !.called = TRUE ]
    /\ UNCHANGED << runVars, fillerVars, waitVars, formVars, pageVars >>

DetectorNext == FindField

DetectorSpec == DetectorInit /\ [][DetectorNext]_vars

(***************************************************************************)
(* The wait primitives on their own.  An invocation is a record:           *)
(*   state      "pending", "resolved" or "rejected" (the promise)          *)
(*   settles    how often resolve or reject has been called                *)
(*   elapsed    ms since the invocation; settledAt, lastMutation likewise  *)
(*   timer      the hard timer, quietTimer the quiet timer: remaining ms   *)
(*   observing  the MutationObserver is connected                          *)
(*   satisfied  the tree shows what the primitive waits for                *)
(* Time advances in steps of Tick.                                         *)
(***************************************************************************)
Tick == POLL_MS

DEFAULT_WAIT_MS == 8000
DEFAULT_QUIET_MS == 400
DEFAULT_SETTLE_TIMEOUT_MS == 5000

Invocation(primitive, timeoutMs, quietMs, satisfied) ==
    [ primitive |-> primitive, timeoutMs |-> timeoutMs, quietMs |-> quietMs,
      state |-> "pending", settles |-> 0, settledAt |-> Unset,
      elapsed |-> 0, lastMutation |-> 0,
      timer |-> timeoutMs, quietTimer |-> Unset,
      observing |-> TRUE, satisfied |-> satisfied ]

\* resolve() or reject() called: only the first call settles the promise.
Settle(w, outcome) ==
    [ w EXCEPT !.settles = @ + 1,
               !.state = IF w.state = "pending" THEN outcome ELSE @,
               !.settledAt = IF w.state = "pending" THEN w.elapsed ELSE @ ]

\* An element wait whose condition holds at the call resolves at once,
\* setting no timer and connecting no observer.
ElementWait(primitive, timeoutMs, satisfied) ==
    LET w == Invocation(primitive, timeoutMs, 0, satisfied)
    IN  IF satisfied
        THEN Settle([ w EXCEPT !.timer = Unset, !.observing = FALSE ], "resolved")
        ELSE w

waitForElement(timeoutMs, existing) == ElementWait("waitForElement", timeoutMs, existing)

waitForElementRemoval(timeoutMs, gone) ==
    ElementWait("waitForElementRemoval", timeoutMs, gone)

waitForVisible(timeoutMs, existing) == ElementWait("waitForVisible", timeoutMs, existing)

DomSettleWait(quietMs, timeoutMs) ==
    [ Invocation("waitForDomSettle", timeoutMs, quietMs, FALSE) EXCEPT
        !.quietTimer = quietMs ]

delay(ms) == [ Invocation("delay", ms, 0, FALSE) EXCEPT !.observing = FALSE ]

ElementWaits == { "waitForElement", "waitForElementRemoval", "waitForVisible" }

\* The invocations the engine makes, and the defaults.
Invocations ==
    { waitForElement(t, e) : t \in { OPEN_WAIT_MS, DEFAULT_WAIT_MS }, e \in BOOLEAN }
    \cup { waitForElementRemoval(DEFAULT_WAIT_MS, e) : e \in BOOLEAN }
    \cup { waitForVisible(DEFAULT_WAIT_MS, e) : e \in BOOLEAN }
    \cup { DomSettleWait(OPEN_SETTLE_QUIET_MS, OPEN_SETTLE_TIMEOUT_MS),
           DomSettleWait(POST_CLICK_SETTLE_MS, STEP_TIMEOUT_MS),
           DomSettleWait(DEFAULT_QUIET_MS, DEFAULT_SETTLE_TIMEOUT_MS) }
    \cup { delay(POST_FILL_DELAY_MS), delay(POLL_MS) }

\* The hard timer's callback.
HardTimerCallback_KeepsQuietTimer(w) ==
    IF w.primitive \in ElementWaits
    THEN Settle([ w EXCEPT !.timer = Unset, !.observing = FALSE ], "rejected")
    ELSE Settle([ w EXCEPT !.timer = Unset ], "resolved")

HardTimerCallback(w) ==
    CASE w.primitive \in ElementWaits ->
            Settle([ w EXCEPT !.timer = Unset, !.observing = FALSE ], "rejected")
      [] w.primitive = "waitForDomSettle" ->
            Settle([ w EXCEPT !.timer = Unset, !.quietTimer = Unset,
                              !.observing = FALSE ], "resolved")
      [] OTHER -> Settle([ w EXCEPT !.timer = Unset ], "resolved")

\* waitForDomSettle's quiet timer callback.
QuietTimerCallback_KeepsMaxTimer(w) ==
    Settle([ w EXCEPT !.quietTimer = Unset ], "resolved")

QuietTimerCallback(w) ==
    Settle([ w EXCEPT !.quietTimer = Unset, !.timer = Unset, !.observing = FALSE ],
           "resolved")

\* The MutationObserver callback, the tree now showing `satisfied`.
ObserverCallback(w, satisfied) ==
    IF w.primitive = "waitForDomSettle"
    THEN [ w EXCEPT !.quietTimer = w.quietMs, !.lastMutation = w.elapsed ]
    ELSE IF satisfied
         THEN Settle([ w EXCEPT !.satisfied = TRUE, !.timer = Unset,
                                !.observing = FALSE ], "resolved")
         ELSE [ w EXCEPT !.satisfied = FALSE ]

WaitsInit ==
    /\ InitRun
    /\ IdleFiller /\ IdleDetector /\ IdleForm /\ IdleWidgets /\ IdleRoom /\ IdleEditor
    /\ wait = NoWait

WaitInvoke ==
    /\ wait = NoWait
    /\ wait' \in Invocations
    /\ UNCHANGED << runVars, fillerVars, detectorVars, formVars, pageVars >>

WaitTimerFires ==
    /\ wait # NoWait
    /\ wait.timer = 0
    /\ wait' = HardTimerCallback(wait)
    /\ UNCHANGED << runVars, fillerVars, detectorVars, formVars, pageVars >>

WaitQuietFires ==
    /\ wait # NoWait
    /\ wait.quietTimer = 0
    /\ wait' = QuietTimerCallback(wait)
    /\ UNCHANGED << runVars, fillerVars, detectorVars, formVars, pageVars >>

\* The page changes the tree; the observer, if connected and observing this
\* kind of change, runs its callback.
WaitMutation ==
    /\ wait # NoWait
    /\ \E satisfied \in IF wait.primitive \in ElementWaits THEN BOOLEAN ELSE { FALSE },
          observed \in BOOLEAN :
          wait' = IF wait.observing /\ observed
                  THEN ObserverCallback(wait, satisfied)
                  ELSE [ wait EXCEPT !.satisfied = satisfied ]
    /\ UNCHANGED << runVars, fillerVars, detectorVars, formVars, pageVars >>

\* Time passes while a timer is pending and none is due.
WaitTick ==
    /\ wait # NoWait
    /\ { wait.timer, wait.quietTimer } # { Unset }
    /\ 0 \notin { wait.timer, wait.quietTimer }
    /\ wait' = [ wait EXCEPT
                   !.elapsed = @ + Tick,
                   !.timer = IF @ = Unset THEN Unset ELSE @ - Tick,
                   !.quietTimer = IF @ = Unset THEN Unset ELSE @ - Tick ]
    /\ UNCHANGED << runVars, fillerVars, detectorVars, formVars, pageVars >>

WaitsNext ==
    \/ WaitInvoke
    \/ WaitTimerFires
    \/ WaitQuietFires
    \/ WaitMutation
    \/ WaitTick
    \/ abort

WaitsSpec == WaitsInit /\ [][WaitsNext]_vars

(***************************************************************************)
(* The adapter's fill pass over one form container, called once per step.  *)
(*   controls        the container's controls                              *)
(*   filledElements  the Set the pass keeps, created by each call          *)
(*   filledCount     the count the pass returns                            *)
(*   fills[i]        how often control i was reported filled in the run    *)
(*   writes[i]       how often a fill dispatched events on control i       *)
(***************************************************************************)
FormControls == 2
MaxPasses == 2
MaxEntries == 2

FormControlSamples ==
    { [ kind |-> "text", value |-> "" ],
      Select(<< Opt("", "Select..."), Opt("1", "Yes, I am authorized"), Opt("0", "No") >>),
      Select(<< Opt("yes", "Yes"), Opt("no", "No") >>),
      RadioGroup(<< "Yes, I am authorized", "No" >>) }

\* Profile values; "" is a profile field that is not set.
FormValues == { "", "Yes", "No" }

\* Pass 1 on one fieldMap entry whose strategies resolve to control i (0: none).
FormFill(f, i, value) ==
    LET outcome == FillerFill(f.controls[i], value)
    IN  IF outcome.ok
        THEN [ f EXCEPT !.controls[i] = outcome.el,
                        !.filledCount = @ + 1,
                        !.filledElements = @ \cup { i },
                        !.fills[i] = @ + 1,
                        !.writes[i] = IF outcome.events = << >> THEN @ ELSE @ + 1 ]
        ELSE [ f EXCEPT !.controls[i] = outcome.el ]

Pass1(f, i, value) ==
    IF value = "" \/ i = 0 THEN f ELSE FormFill(f, i, value)

\* tryFillForLabel, Step 2: the control already has a value.
HasValue(el) ==
    CASE el.kind = "radio"  -> el.checked > 0
      [] el.kind = "select" -> el.selected > 1
      [] OTHER              -> el.value # ""

\* tryFillForLabel on a label next to control i (0: none) whose text matches
\* the pattern of `value` ("": no pattern with a value matches).
tryFillForLabel(f, i, value) ==
    IF i = 0 \/ i \in f.filledElements THEN f
    ELSE IF HasValue(f.controls[i]) THEN f
    ELSE IF value = "" THEN f
    ELSE FormFill(f, i, value)

\* The scanner's pattern table: pair p carries the profile value table[p];
\* `matches` are the pairs one of whose patterns the label text contains.
PatternPairs == 2

PatternTables == [ 1..PatternPairs -> FormValues ]

\* for (const [patterns, value] of allPatterns) { if (!value) continue; ... }
AppliedPair(table, matches) == First({ p \in matches : table[p] # "" })

AppliedValue(table, matches) ==
    IF AppliedPair(table, matches) = 0 THEN "" ELSE table[AppliedPair(table, matches)]

\* tryFillForLabel reaches its injection.
ScanInjects(f, i, value) ==
    /\ i # 0 /\ i \notin f.filledElements
    /\ ~HasValue(f.controls[i])
    /\ value # ""

NoScan == [ control |-> 0 ]

\* What the scanner's latest label did: the control it injected into, whether
\* that control was unset, how often it had been reported filled in this run,
\* the pair applied and the first pair matching the label.
Scanned(f, i, table, matches) ==
    IF ScanInjects(f, i, AppliedValue(table, matches))
    THEN [ control |-> i, unset |-> ~HasValue(f.controls[i]), fills |-> f.fills[i],
           pair |-> AppliedPair(table, matches), first |-> First(matches) ]
    ELSE NoScan

FormInit ==
    /\ InitRun
    /\ IdleFiller /\ IdleDetector /\ IdleWaits /\ IdleWidgets /\ IdleRoom /\ IdleEditor
    /\ \E controls \in [ 1..FormControls -> FormControlSamples ] :
          form = [ passes |-> 0, phase |-> "idle", entry |-> 0,
                   controls |-> controls,
                   filledElements |-> { }, filledCount |-> 0,
                   fills |-> [ i \in 1..FormControls |-> 0 ],
                   writes |-> [ i \in 1..FormControls |-> 0 ],
                   scanned |-> NoScan ]

\* adapter.fill(container, profile) is called for a step.
AdapterFill ==
    /\ form.phase = "idle"
    /\ form.passes < MaxPasses
    /\ form' = [ form EXCEPT !.phase = "pass1", !.entry = 0,
                             !.filledElements = { }, !.filledCount = 0 ]
    /\ UNCHANGED << runVars, fillerVars, detectorVars, waitVars, pageVars >>

Pass1Entry ==
    /\ form.phase = "pass1"
    /\ form.entry < MaxEntries
    /\ \E i \in 0..FormControls, value \in FormValues :
          form' = [ Pass1(form, i, value) EXCEPT !.entry = @ + 1 ]
    /\ UNCHANGED << runVars, fillerVars, detectorVars, waitVars, pageVars >>

ScanBegins ==
    /\ form.phase = "pass1"
    /\ form' = [ form EXCEPT !.phase = "scan", !.entry = 0 ]
    /\ UNCHANGED << runVars, fillerVars, detectorVars, waitVars, pageVars >>

ScanLabel ==
    /\ form.phase = "scan"
    /\ form.entry < MaxEntries
    /\ \E i \in 0..FormControls, table \in PatternTables,
          matches \in SUBSET ( 1..PatternPairs ) :
          form' = [ tryFillForLabel(form, i, AppliedValue(table, matches)) EXCEPT
                      !.entry = @ + 1,
                      !.scanned = Scanned(form, i, table, matches) ]
    /\ UNCHANGED << runVars, fillerVars, detectorVars, waitVars, pageVars >>

FillReturns ==
    /\ form.phase = "scan"
    /\ form' = [ form EXCEPT !.phase = "idle", !.passes = @ + 1, !.scanned = NoScan ]
    /\ UNCHANGED << runVars, fillerVars, detectorVars, waitVars, pageVars >>

FormNext ==
    \/ AdapterFill
    \/ Pass1Entry
    \/ ScanBegins
    \/ ScanLabel
    \/ FillReturns

FormSpec == FormInit /\ [][FormNext]_vars

(***************************************************************************)
(* The Filler's queue of custom-widget injections.  Injection i is the     *)
(* setReactSelect call Filler.fill queues for widget i.                    *)
(*   pending    _pendingAsyncFills                                         *)
(*   inj[i]     the call: where it stands and what it did                  *)
(*   menu       the widgets whose option nodes the document shows, in the  *)
(*              order they were rendered                                   *)
(*   flush[f]   a flushAsyncFills call: the promises it awaits             *)
(*   awaited    the injections some flush has awaited                      *)
(*   discarded  the injections dropped from pending that no flush awaited  *)
(***************************************************************************)
MaxInjections == 2
NumFlushers == 2

Injections == 1..MaxInjections

Flushers == 1..NumFlushers

\* Every widget asks a yes/no question.
WidgetOptions == << "Yes, I am authorized", "No" >>

WidgetValues == { "Yes", "Maybe" }

\* document.querySelectorAll(OPTION_SELECTOR) with n menus rendered.
DocumentOptions(n) ==
    LET copies[k \in 0..n] == IF k = 0 THEN << >> ELSE copies[k - 1] \o WidgetOptions
    IN  copies[n]

OptionMatches ==
    { << p[1], p[2], ReactSelectMatch(DocumentOptions(p[1]), p[2]) >> :
        p \in Pairs(0..MaxInjections, WidgetValues) }

\* The position, among the document's option nodes, of the one Step 4 matches.
MatchInDocument(n, value) ==
    ( CHOOSE t \in OptionMatches : t[1] = n /\ t[2] = value )[3]

\* The widget that rendered the k-th option node of the document.
OwnerOf(menu, k) == menu[ ( ( k - 1 ) \div Len(WidgetOptions) ) + 1 ]

Unqueued == [ state |-> "unqueued" ]

\* setReactSelect up to its first await: the dropdown is clicked open and the
\* value typed into its search input; without a wrapper it returns false at
\* once and Filler.fill's continuation injects the value as text.
Queued(value, wrapper) ==
    IF wrapper
    THEN [ state |-> "polling", value |-> value, attempts |-> 0, opened |-> TRUE,
           escape |-> FALSE, selected |-> 0, success |-> FALSE, setText |-> FALSE ]
    ELSE [ state |-> "settled", value |-> value, attempts |-> 0, opened |-> FALSE,
           escape |-> FALSE, selected |-> 0, success |-> FALSE, setText |-> TRUE ]

\* One turn of the polling loop and, when it ends the loop, Steps 4 and 5
\* and the continuation Filler.fill chained.  `attempts` is the loop's
\* counter; it is gone when the call returns.
Polled(call, menu) ==
    LET attempts == call.attempts + 1
        match == MatchInDocument(Len(menu), call.value)
    IN  IF menu = << >>
        THEN IF attempts < POLL_ATTEMPTS
             THEN [ call EXCEPT !.attempts = attempts ]
             ELSE [ call EXCEPT !.attempts = 0, !.state = "settled",
                                !.setText = TRUE ]
        ELSE IF match = 0
             THEN [ call EXCEPT !.attempts = 0, !.state = "settled",
                                !.escape = TRUE, !.setText = TRUE ]
             ELSE [ call EXCEPT !.attempts = 0, !.state = "settled",
                                !.selected = OwnerOf(menu, match), !.success = TRUE ]

NoFlush == [ state |-> "idle" ]

AsyncFillsInit ==
    /\ InitRun
    /\ IdleFiller /\ IdleDetector /\ IdleWaits /\ IdleForm /\ IdleRoom /\ IdleEditor
    /\ asyncFills = [ pending |-> << >>,
                      inj |-> [ i \in Injections |-> Unqueued ],
                      menu |-> << >>,
                      flush |-> [ f \in Flushers |-> NoFlush ],
                      awaited |-> { }, discarded |-> { } ]

\* Filler.fill on the input of custom widget i.
QueueFill(i) ==
    /\ asyncFills.inj[i] = Unqueued
    /\ \E value \in WidgetValues, wrapper \in BOOLEAN :
          asyncFills' = [ asyncFills EXCEPT !.inj[i] = Queued(value, wrapper),
                                            !.pending = Append(@, i) ]
    /\ UNCHANGED << runVars, fillerVars, detectorVars, waitVars, formVars,
                    roomVars, editorVars >>

\* The page renders the option nodes of a widget that was clicked open.
MenuAppears(i) ==
    /\ asyncFills.inj[i] # Unqueued
    /\ asyncFills.inj[i].opened
    /\ i \notin Range(asyncFills.menu)
    /\ asyncFills' = [ asyncFills EXCEPT !.menu = Append(@, i) ]
    /\ UNCHANGED << runVars, fillerVars, detectorVars, waitVars, formVars,
                    roomVars, editorVars >>

\* The page removes them again.
MenuCloses(i) ==
    /\ i \in Range(asyncFills.menu)
    /\ asyncFills' = [ asyncFills EXCEPT !.menu = SelectSeq(@, LAMBDA w : w # i) ]
    /\ UNCHANGED << runVars, fillerVars, detectorVars, waitVars, formVars,
                    roomVars, editorVars >>

\* The 50 ms timer of injection i's polling loop fires.
Poll(i) ==
    /\ asyncFills.inj[i] # Unqueued
    /\ asyncFills.inj[i].state = "polling"
    /\ asyncFills' = [ asyncFills EXCEPT
                         !.inj[i] = Polled(@, asyncFills.menu) ]
    /\ UNCHANGED << runVars, fillerVars, detectorVars, waitVars, formVars,
                    roomVars, editorVars >>

\* flushAsyncFills is called: with nothing pending it returns 0, otherwise
\* it awaits the promises pending now.
FlushBegins(f) ==
    /\ asyncFills.flush[f] = NoFlush
    /\ asyncFills.pending # << >>
    /\ asyncFills' = [ asyncFills EXCEPT
                         !.flush[f] = [ state |-> "awaiting",
                                        promises |-> Range(asyncFills.pending) ],
                         !.awaited = @ \cup Range(asyncFills.pending) ]
    /\ UNCHANGED << runVars, fillerVars, detectorVars, waitVars, formVars,
                    roomVars, editorVars >>

\* Promise.allSettled resolves: this._pendingAsyncFills = [].
FlushEnds(f) ==
    /\ asyncFills.flush[f] # NoFlush
    /\ \A i \in asyncFills.flush[f].promises : asyncFills.inj[i].state = "settled"
    /\ asyncFills' = [ asyncFills EXCEPT
                         !.flush[f] = NoFlush,
                         !.pending = << >>,
                         !.discarded = @ \cup ( Range(asyncFills.pending)
                                                \ asyncFills.awaited ) ]
    /\ UNCHANGED << runVars, fillerVars, detectorVars, waitVars, formVars,
                    roomVars, editorVars >>

AsyncFillsNext ==
    \/ \E i \in Injections : QueueFill(i)
    \/ \E i \in Injections : MenuAppears(i)
    \/ \E i \in Injections : MenuCloses(i)
    \/ \E i \in Injections : Poll(i)
    \/ \E f \in Flushers : FlushBegins(f)
    \/ \E f \in Flushers : FlushEnds(f)

AsyncFillsSpec == AsyncFillsInit /\ [][AsyncFillsNext]_vars

(***************************************************************************)
(* The interview room: submitAnswer.                                       *)
(*   isProcessing      state.isProcessing                                  *)
(*   controlsDisabled  what disableControls last set                       *)
(*   at[c]             where the c-th submitAnswer call stands:            *)
(*                     "uncalled", "noop" (returned at the guard),         *)
(*                     "request" (awaiting fetch and resp.json()),         *)
(*                     "reply" (steps 4 to 8), "tail" (the final sleep),   *)
(*                     "returned"                                          *)
(***************************************************************************)
MaxSubmits == 3

Submits == 1..MaxSubmits

RoomInit ==
    /\ InitRun
    /\ IdleFiller /\ IdleDetector /\ IdleWaits /\ IdleForm /\ IdleWidgets /\ IdleEditor
    /\ room = [ page |-> "open", isProcessing |-> FALSE, controlsDisabled |-> FALSE,
                at |-> [ c \in Submits |-> "uncalled" ] ]

\* finally { if (this.state.isProcessing) { ... } }
SubmitFinally(r, c) ==
    IF r.isProcessing
    THEN [ r EXCEPT !.isProcessing = FALSE, !.controlsDisabled = FALSE,
                    !.at[c] = "returned" ]
    ELSE [ r EXCEPT !.at[c] = "returned" ]

\* submitAnswer is called (send, skip, code submit, or the microphone).
SubmitAnswer(c) ==
    /\ room.at[c] = "uncalled"
    /\ room' = IF room.isProcessing
               THEN [ room EXCEPT !.at[c] = "noop" ]
               ELSE [ room EXCEPT !.at[c] = "request", !.isProcessing = TRUE,
                                  !.controlsDisabled = TRUE ]
    /\ UNCHANGED << runVars, fillerVars, detectorVars, waitVars, formVars,
                    widgetVars, editorVars >>

\* The request settles: a reply, the end of the interview, or an error.
RequestSettles(c) ==
    /\ room.at[c] = "request"
    /\ \E outcome \in { "reply", "ended", "error" } :
          room' = IF outcome = "reply"
                  THEN [ room EXCEPT !.at[c] = "reply" ]
                  ELSE SubmitFinally(room, c)
    /\ UNCHANGED << runVars, fillerVars, detectorVars, waitVars, formVars,
                    widgetVars, editorVars >>

\* Steps 4 to 9: the reply is shown and spoken, then isProcessing is
\* cleared and the controls enabled; or one of the steps throws.
ReplyShown(c) ==
    /\ room.at[c] = "reply"
    /\ \E thrown \in BOOLEAN :
          room' = IF thrown
                  THEN SubmitFinally(room, c)
                  ELSE [ room EXCEPT !.at[c] = "tail", !.isProcessing = FALSE,
                                     !.controlsDisabled = FALSE ]
    /\ UNCHANGED << runVars, fillerVars, detectorVars, waitVars, formVars,
                    widgetVars, editorVars >>

\* Step 10: sleep(600) resolves, and the finally block runs.
TailEnds(c) ==
    /\ room.at[c] = "tail"
    /\ room' = SubmitFinally(room, c)
    /\ UNCHANGED << runVars, fillerVars, detectorVars, waitVars, formVars,
                    widgetVars, editorVars >>

RoomNext ==
    \/ \E c \in Submits : SubmitAnswer(c)
    \/ \E c \in Submits : RequestSettles(c)
    \/ \E c \in Submits : ReplyShown(c)
    \/ \E c \in Submits : TailEnds(c)

RoomSpec == RoomInit /\ [][RoomNext]_vars

(***************************************************************************)
(* The resume editor: editing and saveResume.  Data is modelled by its     *)
(* revision: every edit produces a new one.                                *)
(*   data      the revision in editorState.data                            *)
(*   saved     the revision the server last stored                         *)
(*   body      the revision in the body of the pending save request        *)
(*   dirty, saving   the flags of editorState                              *)
(*   toast     the last toast shown                                        *)
(***************************************************************************)
MaxEdits == 4

EditorInit ==
    /\ InitRun
    /\ IdleFiller /\ IdleDetector /\ IdleWaits /\ IdleForm /\ IdleWidgets /\ IdleRoom
    /\ editor = [ page |-> "open", data |-> 0, saved |-> 0, body |-> Unset,
                  dirty |-> FALSE, saving |-> FALSE, toast |-> "none" ]

\* An input listener, or one of the add/remove handlers.
EditData ==
    /\ editor.data < MaxEdits
    /\ editor' = [ editor EXCEPT !.data = @ + 1, !.dirty = TRUE ]
    /\ UNCHANGED << runVars, fillerVars, detectorVars, waitVars, formVars,
                    widgetVars, roomVars >>

\* saveResume up to its fetch; collectFormData leaves the revision as the
\* listeners have already collected it.
SaveResume ==
    /\ ~editor.saving
    /\ editor' = [ editor EXCEPT !.saving = TRUE, !.body = editor.data ]
    /\ UNCHANGED << runVars, fillerVars, detectorVars, waitVars, formVars,
                    widgetVars, roomVars >>

\* The save request settles, and the finally block runs.
SaveSettles ==
    /\ editor.saving
    /\ \E outcome \in { "success", "failure", "network" } :
          editor' = IF outcome = "success"
                    THEN [ editor EXCEPT !.saved = editor.body, !.dirty = FALSE,
                                         !.body = Unset, !.saving = FALSE,
                                         !.toast = "success" ]
                    ELSE [ editor EXCEPT !.body = Unset, !.saving = FALSE,
                                         !.toast = "error" ]
    /\ UNCHANGED << runVars, fillerVars, detectorVars, waitVars, formVars,
                    widgetVars, roomVars >>

EditorNext ==
    \/ EditData
    \/ SaveResume
    \/ SaveSettles

EditorSpec == EditorInit /\ [][EditorNext]_vars

(***************************************************************************)
(* Properties                                                              *)
(***************************************************************************)
\* The result of a run that was accepted (not the immediate rejection of a
\* call made while another run is active).
OwnResult(r) == pc[r] = "done" /\ result[r] # AlreadyRunning

\* The run ended as a failure: its result is not a success, or its last
\* status report is an error.
EndedAsFailure(r) ==
    \/ "success" \notin DOMAIN result[r]
    \/ ~result[r].success
    \/ obs.status \in ErrorStatuses

\* C1: run() never clicks a control that step classification recognises as
\* the submit control, in any phase (opening the form, filling, advancing).
C1_NeverClicksSubmit == ~obs.clickedSubmit

\* C2: while a run is active a further run() call is rejected at once and
\* leaves the active run's state (current step, log, abort flag, counts)
\* unchanged, and at no time are two runs inside run().
C2_SecondRunRejected ==
    [][ /\ \A r \in Callers :
              ( pc[r] = "idle" /\ pc'[r] # "idle" /\ \E q \in Callers : Active(q) )
              => /\ pc'[r] = "done"
                 /\ result'[r] = AlreadyRunning
                 /\ _currentStep' = _currentStep
                 /\ _log' = _log
                 /\ _aborted' = _aborted
                 /\ totalFilled' = totalFilled
                 /\ obs' = obs
        /\ Cardinality({ q \in Callers : pc'[q] \in AwaitPcs \cup BusyPcs }) <= 1 ]_vars

C2_Witness ==
    \E r, q \in Callers :
        /\ pc[r] = "done" /\ result[r] = AlreadyRunning
        /\ Active(q) /\ _currentStep > 0

\* C3: a run makes at most MAX_STEPS step iterations: stepsCompleted never
\* exceeds MAX_STEPS, and at most MAX_STEPS fill passes and Next clicks occur.
C3_BoundedSteps ==
    /\ _currentStep <= MAX_STEPS
    /\ obs.fillPasses <= MAX_STEPS
    /\ obs.nextClicks <= MAX_STEPS
    /\ \A r \in Callers :
          "stepsCompleted" \in DOMAIN result[r] => result[r].stepsCompleted <= MAX_STEPS

C3_Witness ==
    \E r \in Callers :
        /\ OwnResult(r)
        /\ obs.fillPasses = MAX_STEPS /\ obs.nextClicks = MAX_STEPS
        /\ result[r].stepsCompleted = MAX_STEPS

\* C4: when abort() is called while a run is active, that run's result is
\* not a success and carries the step count reached at the abort and the
\* filled count accumulated.
C4_AbortedRunKeepsCounts ==
    \A r \in Callers :
        ( OwnResult(r) /\ obs.abortCalled )
        => /\ "success" \in DOMAIN result[r]
           /\ ~result[r].success
           /\ result[r].stepsCompleted = obs.stepAtAbort
           /\ result[r].totalFilled = totalFilled[r]
           /\ result[r].totalFilled >= obs.filledAtAbort

C4_Witness ==
    \E r \in Callers :
        /\ OwnResult(r) /\ obs.abortCalled
        /\ result[r].stepsCompleted > 1 /\ result[r].totalFilled > 0

\* C5 (as stated): the abort flag is examined only between steps; every step
\* whose fill pass has started runs through its classification before the
\* run returns.
C5_AbortOnlyBetweenSteps ==
    \A r \in Callers : pc[r] = "return" => obs.classifiedStep = obs.fillPasses

\* C5 (amended): the abort flag is examined at the head of each iteration and
\* once inside the step, after the post-fill delay; a started step is left
\* unclassified only because that check saw the flag, and classification and
\* the click run only with the flag clear.
C5_AbortCheckedBeforeClassification ==
    \A r \in Callers :
        /\ ( pc[r] = "return" /\ obs.classifiedStep # obs.fillPasses )
           => ( _aborted /\ obs.action = "aborted" )
        /\ ( pc[r] \in { "return", "navigate" } /\ obs.action \in { "submit", "next", "done" } )
           => ~_aborted

C5_Witness ==
    \E r \in Callers :
        /\ pc[r] = "return" /\ obs.action = "aborted"
        /\ obs.fillPasses = obs.classifiedStep + 1 /\ obs.classifiedStep > 0

\* C6: after a Next click, when the transition wait ends at its hard cap the
\* run starts no further fill pass and ends as a failure, reported as
\* validation errors when an error marker is visible and as a transition
\* time-out when none is.
C6_CapEndsRun ==
    obs.capHit =>
        \A r \in Callers :
            /\ pc[r] \notin { "upload", "delay", "classify", "navigate" }
            /\ OwnResult(r)
               => /\ EndedAsFailure(r)
                  /\ obs.status = IF obs.errorMarker THEN "validationErrors" ELSE "timedOut"

\* C7: classification runs only after the step's fill pass has completed,
\* the flush of its queued custom-widget injections included.
C7_ClassifyAfterFill ==
    \A r \in Callers :
        ( pc[r] \in { "return", "navigate" } /\ obs.action \in { "submit", "next", "done" } )
        => fill = "done"

\* C8: a run whose step shows a navigation control that is not clickable
\* ends as a failure.
C8_BlockedNavFails ==
    \A r \in Callers :
        ( OwnResult(r) /\ obs.showsBlockedNav ) => EndedAsFailure(r)

\* C9: a run that met a step-level failure (a failed Next click, a failed
\* transition, an error raised in a step) returns a result carrying
\* stepsCompleted and totalFilled.
C9_FailureReturnsCounts ==
    \A r \in Callers :
        ( OwnResult(r) /\ obs.failure # "none" )
        => /\ { "stepsCompleted", "totalFilled" } \subseteq DOMAIN result[r]
           /\ result[r].stepsCompleted = _currentStep
           /\ result[r].totalFilled = totalFilled[r]

C9_Witness ==
    \E r \in Callers :
        /\ OwnResult(r) /\ obs.failure = "error"
        /\ "stepsCompleted" \in DOMAIN result[r] /\ result[r].stepsCompleted = 1

\* C10: when the step shows a clickable submit-like control whose text
\* implies finality and a clickable next-like control, classification yields
\* "submit" (awaiting confirmation) and neither control is clicked.
C10_SubmitFirst ==
    obs.showsBoth => ( obs.action = "submit" /\ ~obs.clicked )

\* Reading a property of a returned object as a condition: a property the
\* object does not have reads as undefined, which is falsy.
Truthy(object, property) ==
    IF property \in DOMAIN object THEN object[property] = TRUE ELSE FALSE

\* C11: the result run() returns has awaitingSubmit = true exactly when the
\* run stopped at the submit confirmation, and aborted = true exactly when
\* abort() was called during the run.
C11_ResultFlags ==
    \A r \in Callers :
        ( OwnResult(r) /\ "stepsCompleted" \in DOMAIN result[r] )
            => /\ Truthy(result[r], "awaitingSubmit") <=> ( obs.action = "submit" )
               /\ Truthy(result[r], "aborted") <=> _aborted

\* The control types the idempotence clause names.
NamedKinds == { "text", "select", "checkbox", "radio" }

\* A control filled a second time after a first fill that succeeded.
Refilled ==
    /\ injected.calls >= 2
    /\ injected.held
    /\ control.kind \in NamedKinds

\* C13 (as stated): filling a second time with unchanged content skips the
\* injection on every already-correct control (no event is dispatched) and
\* leaves its value unchanged, whatever the control type.
C13_RefillSkipped ==
    Refilled => ( injected.events = << >> /\ control = injected.before )

\* C13 (amended): filling a second time with unchanged content leaves every
\* already-correct control as it was; the injection itself is skipped for
\* text controls and checkboxes only.
C13_RefillKeepsValue ==
    Refilled
        => /\ control = injected.before
           /\ injected.ok
           /\ control.kind \in { "text", "checkbox" } => injected.events = << >>

C13_Witness ==
    /\ Refilled
    /\ control.kind = "text"
    /\ control.value = "India"
    /\ injected.events = << >>

\* The three passes of value matching, as hits of a value on an option label.
ExactHit(label, value) == trim(toLowerCase(label)) = trim(toLowerCase(value))

BooleanHit(label, value) ==
    \/ trim(toLowerCase(value)) \in { "yes", "true", "1", "y" }
          /\ startsWith(trim(toLowerCase(label)), "yes")
    \/ trim(toLowerCase(value)) \in { "no", "false", "0", "n" }
          /\ startsWith(trim(toLowerCase(label)), "no")

SubstringHit(label, value) ==
    \/ includes(trim(toLowerCase(label)), trim(toLowerCase(value)))
    \/ includes(trim(toLowerCase(value)), trim(toLowerCase(label)))

\* The option three-pass matching selects: the first hit of the first pass
\* that has any hit; 0 when no pass has one.
ThreePassChoice(exact, boolean, substring) ==
    IF exact # {} THEN First(exact)
    ELSE IF boolean # {} THEN First(boolean)
    ELSE First(substring)

ThreePassOnLabels(labels, value) ==
    ThreePassChoice({ i \in 1..Len(labels) : ExactHit(labels[i], value) },
                    { i \in 1..Len(labels) : BooleanHit(labels[i], value) },
                    { i \in 1..Len(labels) : SubstringHit(labels[i], value) })

\* ... applied to the text and the value attribute of a native option.
ThreePassOnOptions(options, value) ==
    ThreePassChoice({ i \in 1..Len(options) :
                        ExactHit(options[i].text, value) \/ ExactHit(options[i].value, value) },
                    { i \in 1..Len(options) : BooleanHit(options[i].text, value) },
                    { i \in 1..Len(options) : SubstringHit(options[i].text, value) })

\* The first fill of a control of the given kind has just been made.
FirstFillOf(kind) == injected.calls = 1 /\ injected.before.kind = kind

\* C17: matching a value against the option labels of a radio group applies
\* exact equality, then boolean normalization, then substring containment,
\* and the first pass with a hit decides; "Yes" against
\* ["Yes, I am authorized", "No"] selects the first option.
C17_ThreePassOrder ==
    FirstFillOf("radio")
        => /\ ( IF injected.ok THEN control.checked ELSE 0 )
                  = ThreePassOnLabels(injected.before.labels, injected.value)
           /\ ( injected.before.labels = << "Yes, I am authorized", "No" >>
                /\ injected.value = "Yes" ) => control.checked = 1

\* A case where the pass order decides: "n" hits "Unknown" as a substring
\* and "No thanks" by boolean normalization.
C17_Witness ==
    /\ FirstFillOf("radio")
    /\ injected.before.labels = << "Unknown", "No thanks" >>
    /\ injected.value = "n"
    /\ control.checked = 2

\* C18: the native choice list injector and the custom choice widget
\* injector select the option that three-pass matching (exact, then boolean
\* normalization, then substring) selects.
C18_InjectorsMatchAlike ==
    /\ FirstFillOf("select")
          => ( IF injected.ok THEN control.selected ELSE 0 )
                 = ThreePassOnOptions(injected.before.options, injected.value)
    /\ FirstFillOf("custom")
          => control.selected = ThreePassOnLabels(injected.before.options, injected.value)

\* What the i-th strategy of the resolved descriptor yields: an element, or
\* 0 when it yields none (or names no method of the detector).
Yields(i) ==
    IF resolved.strategies[i].method \in DetectorMethods
    THEN resolved.strategies[i].finds
    ELSE 0

YieldsVisible(i) == Yields(i) # 0 /\ resolved.container.offsetParent[Yields(i)]

\* C16: resolution returns the result of the first strategy, in descriptor
\* order, that yields a visible control; if none does, the result of the
\* first strategy that yields any control; null exactly when none yields one.
C16_VisibleFirst ==
    resolved.called
        => LET n == Len(resolved.strategies)
           IN  /\ \A i \in 1..n :
                     ( YieldsVisible(i) /\ \A j \in 1..(i - 1) : ~YieldsVisible(j) )
                         => resolved.el = Yields(i)
               /\ \A i \in 1..n :
                     ( /\ \A j \in 1..n : ~YieldsVisible(j)
                       /\ Yields(i) # 0
                       /\ \A j \in 1..(i - 1) : Yields(j) = 0 )
                         => resolved.el = Yields(i)
               /\ resolved.el = 0 <=> \A i \in 1..n : Yields(i) = 0

\* The first strategy yields a hidden control, a later one a visible one.
C16_Witness ==
    /\ resolved.called
    /\ Len(resolved.strategies) >= 2
    /\ Yields(1) # 0 /\ ~YieldsVisible(1)
    /\ YieldsVisible(2)
    /\ Yields(2) # Yields(1)
    /\ resolved.el = Yields(2)

\* C14: every wait primitive settles exactly once and no later than its hard
\* timeout, whatever the page mutates and whatever the abort flag: while
\* pending its hard timer is running and due timeoutMs after the call, and
\* once settled resolve/reject has been called once, at or before timeoutMs,
\* with no timer or observer left behind.
C14_SettlesOnceInTime ==
    wait # NoWait =>
        /\ wait.settles <= 1
        /\ wait.state = "pending" =>
              /\ wait.settles = 0
              /\ wait.timer >= 0
              /\ wait.elapsed + wait.timer = wait.timeoutMs
        /\ wait.state # "pending" =>
              /\ wait.settles = 1
              /\ wait.settledAt >= 0 /\ wait.settledAt <= wait.timeoutMs
              /\ wait.timer = Unset /\ wait.quietTimer = Unset
              /\ ~wait.observing

\* An aborted engine, a tree that kept mutating, and an element wait that
\* was rejected at its hard timeout.
C14_Witness ==
    /\ wait # NoWait
    /\ _aborted
    /\ wait.primitive \in ElementWaits
    /\ wait.state = "rejected"
    /\ wait.settledAt = wait.timeoutMs

\* C15: the quiescence wait resolves only when no mutation was observed for
\* the full quiet window, that is, one quiet window after the last observed
\* mutation (or after the call).
C15_SettledMeansQuiet ==
    ( wait # NoWait /\ wait.primitive = "waitForDomSettle" /\ wait.state = "resolved" )
        => wait.settledAt - wait.lastMutation = wait.quietMs


\* C12: no control is filled more than once in a run, whether by a later
\* descriptor, a later scanner pass or a later step: no control has events
\* dispatched on it by more than one fill.
C12_FilledOnce ==
    \A i \in 1..FormControls : form.writes[i] <= 1


\* C19: the totalFilled a run returns is the number of controls the run
\* filled (by its fill passes and resume uploads), each counted once.
C19_TotalFilledCountsControls ==
    \A r \in Callers :
        ( OwnResult(r) /\ "totalFilled" \in DOMAIN result[r] )
            => result[r].totalFilled = obs.controlsFilled


\* C20: when no profile is available the run fails before the step loop
\* starts: no step is begun (stepsCompleted stays 0) and no fill pass is
\* performed.
C20_NoProfileNoStep ==
    obs.noProfile =>
        /\ _currentStep = 0
        /\ obs.fillPasses = 0
        /\ \A r \in Callers :
              ( OwnResult(r) /\ "stepsCompleted" \in DOMAIN result[r] )
                  => ( ~result[r].success /\ result[r].stepsCompleted = 0 )


\* C21: whenever a wait primitive has settled, by success or by timeout, its
\* mutation subscription is disconnected and its timers are cancelled.
C21_SettledLeavesNothing ==
    ( wait # NoWait /\ wait.state # "pending" )
        => /\ ~wait.observing
           /\ wait.timer = Unset
           /\ wait.quietTimer = Unset

\* A quiescence wait that resolved by its quiet timer after mutations had
\* restarted the window.
C21_Witness ==
    /\ wait # NoWait
    /\ wait.primitive = "waitForDomSettle"
    /\ wait.state = "resolved"
    /\ wait.lastMutation > 0
    /\ wait.settledAt = wait.lastMutation + wait.quietMs
    /\ wait.settledAt < wait.timeoutMs


\* C22: the label scanner injects into a control only if the control is
\* unset and has not been filled earlier in this run, and it applies the
\* first pattern pair, in table order, whose pattern matches the label.
C22_ScannerInjectsOnce ==
    form.scanned # NoScan =>
        /\ form.scanned.unset
        /\ form.scanned.fills = 0
        /\ form.scanned.pair = form.scanned.first


\* C23: a custom-widget injection polls at most 40 times and then settles;
\* whenever it ends without selecting an option it has dismissed the widget
\* it opened with Escape and reported failure, and plain text injection on
\* the control followed.
C23_NoSelectionDismisses ==
    \A i \in Injections :
        LET call == asyncFills.inj[i]
        IN  call # Unqueued =>
              /\ call.attempts < POLL_ATTEMPTS
              /\ ( call.state = "settled" /\ call.selected = 0 ) =>
                    /\ call.opened => call.escape
                    /\ ~call.success
                    /\ call.setText

C28_OwnOptionOnly ==
    \A i \in Injections :
        asyncFills.inj[i] # Unqueued => asyncFills.inj[i].selected \in { 0, i }


\* C29: at most one answer submission is in flight at any time, and while
\* one is, isProcessing is true (so that a further call is a no-op).
C29_OneSubmissionInFlight ==
    LET inFlight == { c \in Submits : room.at[c] = "request" }
    IN  /\ Cardinality(inFlight) <= 1
        /\ inFlight # { } => room.isProcessing


\* C30: the dirty flag is false only when the data last saved to the server
\* equals the current editor data.
C30_CleanMeansSaved == ~editor.dirty => editor.saved = editor.data


\* C24: after any run() call has settled, however it ended, the
\* orchestrator is idle again, so that the next run() call is accepted:
\* _running is set only while some run() call is still executing.
C24_SettledRunLeavesIdle == _running => \E r \in Callers : Active(r)


\* C25: once abort() has been called during an active run, that run starts
\* no further fill pass and makes no further navigation click.
C25_AbortStopsFillAndClicks ==
    [][ ( obs.abortCalled /\ obs'.abortCalled )
            => /\ obs'.fillPasses = obs.fillPasses
               /\ obs'.nextClicks = obs.nextClicks ]_vars

\* A run aborted while it waited for the transition after its first Next
\* click, which has returned without a second fill pass.
C25_Witness ==
    \E r \in Callers :
        /\ pc[r] = "done" /\ OwnResult(r)
        /\ obs.abortCalled
        /\ obs.stepAtAbort = 1
        /\ obs.nextClicks = 1
        /\ obs.fillPasses = 1


\* C26: run() reports success = true only when the run ended in Done or in
\* AwaitingSubmitConfirmation, that is, when its last classification found
\* nothing to click or found the submit control; a run that ended on a
\* failed Next click, a blocked or timed-out transition or the step cap
\* reports success = false.
C26_SuccessOnlyWhenDone ==
    \A r \in Callers :
        ( OwnResult(r) /\ "success" \in DOMAIN result[r] /\ result[r].success )
            => obs.action \in { "done", "submit" }

====
